---- MODULE Spec2Model ----
EXTENDS Integers, Sequences, FiniteSets, TLC

\* Verification model of FileSearch.py: merge_ranges, find_matches,
\* read_text_lines and the per-file / per-window loop of main.

\* ---------------------------------------------------------------- bounds
MaxIdx == 3
MaxWins == 3
MaxFiles == 2
MaxLines == 2
MaxContext == 1
MaxCap == 3

Max(a, b) == IF a >= b THEN a ELSE b
Min(a, b) == IF a <= b THEN a ELSE b

SeqsUpTo(S, n) == UNION {[1..k -> S] : k \in 0..n}

\* ---------------------------------------------------------------- merge_ranges
PairLeq(p, q) == p[1] < q[1] \/ (p[1] = q[1] /\ p[2] <= q[2])

RECURSIVE InsertSorted(_, _)
InsertSorted(p, r) ==
  IF r = <<>> THEN <<p>>
  ELSE IF PairLeq(p, Head(r)) THEN <<p>> \o r
  ELSE <<Head(r)>> \o InsertSorted(p, Tail(r))

RECURSIVE SortRangesRec(_)
SortRangesRec(r) ==
  IF r = <<>> THEN <<>> ELSE InsertSorted(Head(r), SortRangesRec(Tail(r)))

SortRanges(r) == SortRangesRec(r)

FusesOverlapOnly(s, pe) == s <= pe

Fuses(s, pe) == s <= pe + 1

RECURSIVE MergeFold(_, _)
MergeFold(rest, merged) ==
  IF rest = <<>> THEN merged
  ELSE LET s  == rest[1][1]
           e  == rest[1][2]
           ps == merged[Len(merged)][1]
           pe == merged[Len(merged)][2]
       IN IF Fuses(s, pe)
          THEN MergeFold(Tail(rest), [merged EXCEPT ![Len(merged)] = <<ps, Max(pe, e)>>])
          ELSE MergeFold(Tail(rest), Append(merged, <<s, e>>))

MergeRangesNoFinal(r) ==
  IF r = <<>> THEN <<>>
  ELSE LET sr == SortRanges(r)
           m  == MergeFold(Tail(sr), <<Head(sr)>>)
       IN SubSeq(m, 1, Len(m) - 1)

MergeRanges(r) ==
  IF r = <<>> THEN <<>>
  ELSE LET sr == SortRanges(r) IN MergeFold(Tail(sr), <<Head(sr)>>)

\* ---------------------------------------------------------------- merge spec
Windows == {w \in (0..MaxIdx) \X (0..MaxIdx) : w[1] <= w[2]}

\* ---------------------------------------------------------------- state
\* merge_ranges harness
VARIABLES inp, mout, mdone
\* parsed arguments of main
VARIABLES context, useRegex, pattern, ignoreCase, noMerge, maxMatches
\* files yielded by iter_files (their number) and the loop of main
VARIABLES nFiles, fileNo, pc, exc, outCreated, stopLine
\* the current file: line count, hit_idxs, per-hit ranges, ranges after
\* merging, index of the next window to write, total_matches
VARIABLES numLines, hits, built, ranges, wIdx, total
\* what has been written / read so far
VARIABLES written, processed

mainVars == <<context, useRegex, pattern, ignoreCase, noMerge, maxMatches,
              nFiles, fileNo, pc, exc, outCreated, stopLine,
              numLines, hits, built, ranges, wIdx, total, written, processed>>
mvars == <<inp, mout, mdone>>
vars == <<inp, mout, mdone, context, useRegex, pattern, ignoreCase, noMerge,
          maxMatches, nFiles, fileNo, pc, exc, outCreated, stopLine,
          numLines, hits, built, ranges, wIdx, total, written, processed>>

MainIdle == /\ context = 0 /\ useRegex = FALSE /\ pattern = <<"b">>
            /\ ignoreCase = FALSE /\ noMerge = FALSE /\ maxMatches = 0
            /\ nFiles = 0 /\ fileNo = 0 /\ pc = "start" /\ exc = "none"
            /\ outCreated = FALSE /\ stopLine = ""
            /\ numLines = 0 /\ hits = <<>> /\ built = <<>> /\ ranges = <<>>
            /\ wIdx = 0 /\ total = 0 /\ written = <<>> /\ processed = <<>>

MInit == /\ inp \in SeqsUpTo(Windows, MaxWins)
         /\ mout = <<>>
         /\ mdone = FALSE
         /\ MainIdle

Merge == /\ ~mdone
         /\ mout' = MergeRanges(inp)
         /\ mdone' = TRUE
         /\ inp' = SortRanges(inp)
         /\ UNCHANGED mainVars

MNext == Merge

MSpec == MInit /\ [][MNext]_vars

Covered(r) == {i \in 0..MaxIdx : \E k \in 1..Len(r) : r[k][1] <= i /\ i <= r[k][2]}

\* C1: merge_ranges preserves the covered indices, returns windows sorted by
\* start with a gap of more than one index between consecutive windows, puts
\* every input window inside exactly one output window, and maps [] to [].
C1_MergeCorrect ==
  mdone =>
    /\ Covered(mout) = Covered(inp)
    /\ \A k \in 1..Len(mout) - 1 : mout[k + 1][1] > mout[k][2] + 1
    /\ \A k \in 1..Len(mout) : mout[k][1] <= mout[k][2]
    /\ \A j \in 1..Len(inp) :
         Cardinality({k \in 1..Len(mout) : mout[k][1] <= inp[j][1] /\ inp[j][2] <= mout[k][2]}) = 1
    /\ (inp = <<>> <=> mout = <<>>)

C1_Witness ==
  mdone /\ Len(inp) = 3 /\ Len(mout) = 2
  /\ \E j \in 1..3 : \E k \in 1..3 : j # k /\ inp[k][1] = inp[j][2] + 1

\* C2: merging an already merged list returns the same list.
C2_Idempotent == mdone => MergeRanges(mout) = mout

C2_Witness == mdone /\ Len(inp) = 3 /\ Len(mout) = 1 /\ inp[2][1] = inp[1][2] + 1

\* ---------------------------------------------------------------- find_matches
\* Lines are sequences of characters; "B" is the only upper-case character.
LineVals == {<<"a">>, <<"b">>, <<"a", "B">>}
Patterns == {<<"b">>, <<"(">>}

LowerChar(c) == IF c = "B" THEN "b" ELSE c

Lower(str) == [k \in 1..Len(str) |-> LowerChar(str[k])]

\* Python's `needle in hay` on strings
IsSubstr(needle, hay) ==
  \E k \in 1..(Len(hay) - Len(needle) + 1) :
     SubSeq(hay, k, k + Len(needle) - 1) = needle

\* re.compile raises re.error on an unbalanced "("
RegexValid(p) == ~\E k \in 1..Len(p) : p[k] = "("

\* rx.search(line) for a pattern without metacharacters; IGNORECASE folds case
RegexSearch(p, line, ic) ==
  IF ic THEN IsSubstr(Lower(p), Lower(line)) ELSE IsSubstr(p, line)

LineMatches(lines, i, p, rx, ic) ==
  IF rx THEN RegexSearch(p, lines[i + 1], ic)
  ELSE LET needle == IF ic THEN Lower(p) ELSE p
           hay    == IF ic THEN Lower(lines[i + 1]) ELSE lines[i + 1]
       IN IsSubstr(needle, hay)

RECURSIVE FindFrom(_, _, _, _, _)
FindFrom(lines, i, p, rx, ic) ==
  IF i >= Len(lines) THEN <<>>
  ELSE (IF LineMatches(lines, i, p, rx, ic) THEN <<i>> ELSE <<>>)
       \o FindFrom(lines, i + 1, p, rx, ic)

FindMatches(lines, p, rx, ic) == FindFrom(lines, 0, p, rx, ic)

\* ---------------------------------------------------------------- main
ReadStatuses == {"ok", "decodeRecovered", "fallbackFails", "ioError"}
Contents == SeqsUpTo(LineVals, MaxLines)

Range(sq) == {sq[k] : k \in 1..Len(sq)}

\* ranges.append((max(0, idx - n), min(len(lines) - 1, idx + n)))
BuildRanges(hs, L, n) ==
  [k \in 1..Len(hs) |-> <<Max(0, hs[k] - n), Min(L - 1, hs[k] + n)>>]

MaybeMergeAlways(r) == MergeRanges(r)

MaybeMerge(r) == IF noMerge THEN r ELSE MergeRanges(r)

MatchSetOpen(hs, s, e) == {i \in Range(hs) : s <= i /\ i < e}

MatchSet(hs, s, e) == {i \in Range(hs) : s <= i /\ i <= e}

RECURSIVE SortedSeq(_)
SortedSeq(S) ==
  IF S = {} THEN <<>>
  ELSE LET m == CHOOSE x \in S : \A y \in S : x <= y
       IN <<m>> \o SortedSeq(S \ {m})

Prefix(i, ms) == IF i \in ms THEN ">> " ELSE "   "

Init ==
  /\ inp = <<>> /\ mout = <<>> /\ mdone = FALSE
  /\ context \in -MaxContext..MaxContext
  /\ useRegex \in BOOLEAN
  /\ pattern \in Patterns
  /\ ignoreCase \in BOOLEAN
  /\ noMerge \in BOOLEAN
  /\ maxMatches \in 0..MaxCap
  /\ nFiles \in 0..MaxFiles
  /\ fileNo = 0 /\ pc = "start" /\ exc = "none"
  /\ outCreated = FALSE /\ stopLine = ""
  /\ numLines = 0 /\ hits = <<>> /\ built = <<>> /\ ranges = <<>>
  /\ wIdx = 0 /\ total = 0 /\ written = <<>> /\ processed = <<>>

Config == <<inp, mout, mdone, context, useRegex, pattern, ignoreCase, noMerge,
            maxMatches, nFiles>>

\* with open(args.out, "w") as f
OpenOut ==
  /\ pc = "start"
  /\ outCreated' = TRUE
  /\ pc' = "next"
  /\ UNCHANGED <<Config, fileNo, exc, stopLine, numLines, hits, built, ranges,
                 wIdx, total, written, processed>>

\* open(args.out, "w") raises OSError (e.g. missing directory): main aborts
OpenOutFails ==
  /\ pc = "start"
  /\ pc' = "crashed" /\ exc' = "OSError(out)"
  /\ UNCHANGED <<Config, fileNo, outCreated, stopLine, numLines, hits, built,
                 ranges, wIdx, total, written, processed>>

\* read_text_lines: strict read raises an OSError, not caught anywhere
ReadIOError ==
  /\ pc = "next" /\ fileNo < nFiles
  /\ fileNo' = fileNo + 1
  /\ pc' = "crashed" /\ exc' = "OSError"
  /\ UNCHANGED <<Config, outCreated, stopLine, numLines, hits, built, ranges,
                 wIdx, total, written, processed>>

\* read_text_lines: UnicodeDecodeError, then the fallback read raises -> None
ReadSkipped ==
  /\ pc = "next" /\ fileNo < nFiles
  /\ fileNo' = fileNo + 1
  /\ processed' = Append(processed, [file |-> fileNo + 1, status |-> "skipped",
                                     len |-> 0, hits |-> <<>>])
  /\ UNCHANGED <<Config, pc, exc, outCreated, stopLine, numLines, hits, built,
                 ranges, wIdx, total, written>>

\* lines read (strictly or with errors="replace"), then find_matches
ReadAndMatch ==
  /\ pc = "next" /\ fileNo < nFiles
  /\ \E status \in {"ok", "decodeRecovered"}, lines \in Contents :
       /\ fileNo' = fileNo + 1
       /\ IF useRegex /\ ~RegexValid(pattern)
          THEN /\ pc' = "crashed" /\ exc' = "re.error"
               /\ UNCHANGED <<numLines, hits, built, ranges, wIdx, processed>>
          ELSE LET hs == FindMatches(lines, pattern, useRegex, ignoreCase)
                   br == BuildRanges(hs, Len(lines), context)
               IN /\ processed' = Append(processed,
                        [file |-> fileNo + 1, status |-> status,
                         len |-> Len(lines), hits |-> hs])
                  /\ exc' = exc
                  /\ numLines' = Len(lines)
                  /\ hits' = hs
                  /\ IF hs = <<>>
                     THEN /\ pc' = "next"
                          /\ built' = <<>> /\ ranges' = <<>> /\ wIdx' = 0
                     ELSE /\ pc' = "write"
                          /\ built' = br
                          /\ ranges' = MaybeMerge(br)
                          /\ wIdx' = 1
  /\ UNCHANGED <<Config, outCreated, stopLine, total, written>>

\* one iteration of `for (s, e) in ranges`
WriteWindow ==
  /\ pc = "write"
  /\ LET s  == ranges[wIdx][1]
         e  == ranges[wIdx][2]
         ms == MatchSet(hits, s, e)
         t  == total + Cardinality(ms)
         body == [j \in 1..Max(0, e - s + 1) |-> <<Prefix(s + j - 1, ms), s + j>>]
     IN /\ written' = Append(written,
                 [file |-> fileNo, s |-> s, e |-> e,
                  matchLines |-> [k \in 1..Cardinality(ms) |-> SortedSeq(ms)[k] + 1],
                  body |-> body])
        /\ total' = t
        /\ IF maxMatches # 0 /\ t >= maxMatches
           THEN /\ pc' = "stopped"
                /\ stopLine' = "Stopped early: reached --max-matches"
                /\ wIdx' = wIdx
           ELSE /\ stopLine' = stopLine
                /\ IF wIdx = Len(ranges)
                   THEN pc' = "next" /\ wIdx' = 0
                   ELSE pc' = "write" /\ wIdx' = wIdx + 1
  /\ UNCHANGED <<Config, fileNo, exc, outCreated, numLines, hits, built, ranges,
                 processed>>

\* iter_files exhausted: print("Wrote results to ...")
Finish ==
  /\ pc = "next" /\ fileNo = nFiles
  /\ pc' = "done"
  /\ UNCHANGED <<Config, fileNo, exc, outCreated, stopLine, numLines, hits,
                 built, ranges, wIdx, total, written, processed>>

Next == OpenOut \/ OpenOutFails \/ ReadIOError \/ ReadSkipped \/ ReadAndMatch \/ WriteWindow \/ Finish

Spec == Init /\ [][Next]_vars

\* ---------------------------------------------------------------- properties of main
WrittenPositions ==
  UNION {{<<written[k].file, written[k].matchLines[j]>> :
            j \in 1..Len(written[k].matchLines)} : k \in 1..Len(written)}

FileHits(f) ==
  LET ks == {k \in 1..Len(processed) : processed[k].file = f}
  IN IF ks = {} THEN {} ELSE Range(processed[CHOOSE k \in ks : TRUE].hits)

WinIdxOf(f) == {k \in 1..Len(written) : written[k].file = f}

\* C3: with --max-matches N > 0 a run that stops has written exactly N
\* matches, and has written the "Stopped early" line.
C3_CapExact ==
  (maxMatches > 0 /\ pc = "stopped") =>
     (Cardinality(WrittenPositions) = maxMatches /\ stopLine # "")

\* C4: total_matches equals the number of distinct (file, matched line)
\* positions written so far.
C4_TotalDistinct == total = Cardinality(WrittenPositions)

\* C5: with --no-merge the windows written for a file are the per-match
\* windows (max(0,i-n), min(len-1,i+n)) in match order; a prefix of them while
\* the file is being written, all of them once the file is finished.
C5_NoMergeWindows ==
  noMerge =>
    \A k \in 1..Len(processed) :
      LET f   == processed[k].file
          hs  == processed[k].hits
          exp == [j \in 1..Len(hs) |->
                    <<Max(0, hs[j] - context), Min(processed[k].len - 1, hs[j] + context)>>]
          ws  == SortedSeq(WinIdxOf(f))
          got == [j \in 1..Len(ws) |-> <<written[ws[j]].s, written[ws[j]].e>>]
      IN /\ Len(got) <= Len(exp)
         /\ got = SubSeq(exp, 1, Len(got))
         /\ (f < fileNo \/ pc \in {"next", "done"}) => got = exp

C5_Witness ==
  /\ noMerge /\ pc = "done" /\ Len(written) = 2
  /\ written[1].file = written[2].file
  /\ written[2].s <= written[1].e

\* C6: with --regex and an invalid pattern the run aborts before any file is
\* processed and before the output file is opened for writing.
C6_RegexFailFast ==
  (useRegex /\ ~RegexValid(pattern)) =>
     (~outCreated /\ processed = <<>> /\ pc \in {"start", "crashed"})

\* C7: every per-match window satisfies 0 <= start <= end <= len - 1.
C7_WindowBounds ==
  \A k \in 1..Len(built) :
     0 <= built[k][1] /\ built[k][1] <= built[k][2] /\ built[k][2] <= numLines - 1

\* C8: a failing read never raises out of main; the file is skipped.
C8_ReadErrorSkipped == exc # "OSError"

\* C9: a written window lists, in MATCH_LINES, the ascending 1-based numbers
\* of the file's matches inside [s,e]; writes every line of [s,e] once in
\* ascending order; marks a line ">> " iff it is a match.
C9_WindowContent ==
  \A k \in 1..Len(written) :
    LET w  == written[k]
        hs == FileHits(w.file)
    IN /\ {w.matchLines[j] : j \in 1..Len(w.matchLines)}
            = {h + 1 : h \in {x \in hs : w.s <= x /\ x <= w.e}}
       /\ \A j \in 1..Len(w.matchLines) - 1 : w.matchLines[j] < w.matchLines[j + 1]
       /\ Len(w.body) = Max(0, w.e - w.s + 1)
       /\ \A j \in 1..Len(w.body) :
            /\ w.body[j][2] = w.s + j
            /\ (w.body[j][1] = ">> " <=> (w.s + j - 1) \in hs)
            /\ w.body[j][1] \in {">> ", "   "}

C9_Witness ==
  \E k \in 1..Len(written) :
    /\ Len(written[k].body) = 2
    /\ Len(written[k].matchLines) = 1
    /\ {written[k].body[1][1], written[k].body[2][1]} = {">> ", "   "}

\* C10: when no cap stops the run, every match of every processed file is in
\* the MATCH_LINES of some written window of that file, and of exactly one
\* window when merging is on.
C10_AllMatchesReported ==
  pc = "done" =>
    \A k \in 1..Len(processed) :
      \A h \in Range(processed[k].hits) :
        LET n == Cardinality({i \in WinIdxOf(processed[k].file) :
                                h + 1 \in Range(written[i].matchLines)})
        IN n >= 1 /\ (~noMerge => n = 1)

====
